---- MODULE Spec2Model ----
(***************************************************************************)
(* comparevocabs.py: comparison of WordPiece vocabularies.                 *)
(*                                                                         *)
(* A string is a sequence of one-character strings, so that the character  *)
(* tests of the code (rstrip, isspace, the [unusedN] regular expression)   *)
(* are computed and not assumed.  A path is an opaque string.              *)
(***************************************************************************)
EXTENDS Integers, Sequences, FiniteSets, Bags, TLC

VARIABLES
  pc,               \* position of the running code
  args,             \* the command line: [vocab, reference_text, help]
  files,            \* the file system: path -> text or Missing
  interp,           \* the interpreter running the code (see sample)
  loaded,           \* main: the (path, vocabulary) pairs loaded so far
  vocabs,           \* main: the OrderedDict path -> vocabulary, as a list of pairs
  reference_counts, \* main: None or the Counter of the reference text
  todo,             \* main: the pairs combinations() has still to yield
  frame,            \* compare: its arguments and locals
  out,              \* stdout, a list of records
  err,              \* stderr, a list of records
  exitcode,         \* <<>> while running, then <<the exit status of the process>>
  arg,              \* the argument of a function applied on its own
  ret,              \* what that function returned
  log               \* the calls made so far, in order

vars == <<pc, args, files, interp, loaded, vocabs, reference_counts, todo,
          frame, out, err, exitcode, arg, ret, log>>

\* what compare never writes
callerVars == <<args, files, interp, loaded, vocabs, reference_counts, todo, arg, ret, log>>

None == "None"
\* a path with no file behind it, and a file with its lines
Missing == [exists |-> FALSE, lines |-> <<>>]

File(lines) == [exists |-> TRUE, lines |-> lines]

\* token_counts: None, or a Counter as the list of its <<key, count>> items
NoCounts == [none |-> TRUE, items |-> <<>>]

Counts(items) == [none |-> FALSE, items |-> items]

\* ---------------------------------------------------------------- bounds
MaxLen == 3        \* entries of a vocabulary handed to filter_special
MaxLines == 3      \* lines of a vocabulary file handed to load_vocab
MaxPaths == 3      \* vocabulary paths on the command line
MaxDiff == 12      \* tokens exclusive to one side handed to compare
MaxCommon == 1     \* tokens common to both sides handed to compare

\* ---------------------------------------------------------------- helpers
Range(s) == {s[i] : i \in 1..Len(s)}

Min(a, b) == IF a <= b THEN a ELSE b

SeqsUpTo(S, n) == UNION {[1..k -> S] : k \in 0..n}

\* str.isspace() of one character, over the characters the model draws
IsSpaceChar(c) == c \in {" ", "\t", "\n"}

\* str.isspace(): true when the string is not empty and all of it is whitespace
isspace(s) == Len(s) > 0 /\ \A i \in 1..Len(s) : IsSpaceChar(s[i])

RECURSIVE rstrip_nl(_)
\* l.rstrip('\n')
rstrip_nl(l) ==
  IF Len(l) > 0 /\ l[Len(l)] = "\n" THEN rstrip_nl(SubSeq(l, 1, Len(l) - 1)) ELSE l

\* ---------------------------------------------------------------- constants
U == <<"[", "u", "n", "u", "s", "e", "d">>

BERT_SPECIAL == { <<"[", "P", "A", "D", "]">>, <<"[", "U", "N", "K", "]">>,
                  <<"[", "C", "L", "S", "]">>, <<"[", "S", "E", "P", "]">>,
                  <<"[", "M", "A", "S", "K", "]">> }

Digits == {"0", "1", "2", "3", "4", "5", "6", "7", "8", "9"}

\* UNUSED_RE.match(v) for ^\[unused[0-9]+\]$ : in Python "$" also matches just
\* before a newline that ends the string
UNUSED_RE_match(v) ==
  \E k \in 8..Len(v) :
     /\ SubSeq(v, 1, 7) = U
     /\ \A j \in 8..k : v[j] \in Digits
     /\ k + 1 <= Len(v)
     /\ v[k + 1] = "]"
     /\ \/ Len(v) = k + 1
        \/ Len(v) = k + 2 /\ v[k + 2] = "\n"

\* ---------------------------------------------------------------- filter_special
RECURSIVE filter_loop(_, _, _)
\* the loop of filter_special from entry i on, acc = [filtered, special, unused]
filter_loop(vocab, i, acc) ==
  IF i > Len(vocab) THEN acc
  ELSE LET v == vocab[i] IN
       IF v \in BERT_SPECIAL
         THEN filter_loop(vocab, i + 1, [acc EXCEPT !.special = Append(@, v)])
       ELSE IF UNUSED_RE_match(v)
         THEN filter_loop(vocab, i + 1, [acc EXCEPT !.unused = Append(@, v)])
       ELSE filter_loop(vocab, i + 1, [acc EXCEPT !.filtered = Append(@, v)])

RECURSIVE filter_loop_noelif(_, _, _)
\* filter_special with the placeholder test lost: placeholders are kept
filter_loop_noelif(vocab, i, acc) ==
  IF i > Len(vocab) THEN acc
  ELSE LET v == vocab[i] IN
       IF v \in BERT_SPECIAL
         THEN filter_loop_noelif(vocab, i + 1, [acc EXCEPT !.special = Append(@, v)])
       ELSE filter_loop_noelif(vocab, i + 1, [acc EXCEPT !.filtered = Append(@, v)])

filter_special_keeps_unused(vocab) ==
  filter_loop_noelif(vocab, 1, [filtered |-> <<>>, special |-> <<>>, unused |-> <<>>])

\* filter_special(vocab, name): its three lists when it returns; it returns
\* .filtered and prints the three lengths
filter_special(vocab) ==
  filter_loop(vocab, 1, [filtered |-> <<>>, special |-> <<>>, unused |-> <<>>])

\* the line filter_special prints on stderr
FilterLine(name, r) ==
  [k |-> "filter", name |-> name, special |-> Len(r.special),
   unused |-> Len(r.unused), other |-> Len(r.filtered)]

\* ---------------------------------------------------------------- load_vocab
RECURSIVE load_loop(_, _, _, _)
\* the loop of load_vocab from line ln on, acc = [vocab, warnings]
load_loop(lines, path, ln, acc) ==
  IF ln > Len(lines) THEN acc
  ELSE LET l == rstrip_nl(lines[ln]) IN
       IF Len(l) = 0 \/ isspace(l)
         THEN load_loop(lines, path, ln + 1,
                [acc EXCEPT !.warnings =
                   Append(@, [k |-> "skip", ln |-> ln, path |-> path, l |-> l])])
       ELSE IF Len(l) = 0 \/ \E j \in 1..Len(l) : IsSpaceChar(l[j])
         THEN load_loop(lines, path, ln + 1,
                [acc EXCEPT !.warnings =
                   Append(@, [k |-> "line", ln |-> ln, path |-> path, l |-> l]),
                            !.vocab = Append(@, l)])
       ELSE load_loop(lines, path, ln + 1, [acc EXCEPT !.vocab = Append(@, l)])

RECURSIVE load_loop_keepblank(_, _, _, _)
\* load_vocab testing only "not l": a whitespace-only line is kept
load_loop_keepblank(lines, path, ln, acc) ==
  IF ln > Len(lines) THEN acc
  ELSE LET l == rstrip_nl(lines[ln]) IN
       IF Len(l) = 0
         THEN load_loop_keepblank(lines, path, ln + 1,
                [acc EXCEPT !.warnings =
                   Append(@, [k |-> "skip", ln |-> ln, path |-> path, l |-> l])])
       ELSE IF \E j \in 1..Len(l) : IsSpaceChar(l[j])
         THEN load_loop_keepblank(lines, path, ln + 1,
                [acc EXCEPT !.warnings =
                   Append(@, [k |-> "line", ln |-> ln, path |-> path, l |-> l]),
                            !.vocab = Append(@, l)])
       ELSE load_loop_keepblank(lines, path, ln + 1, [acc EXCEPT !.vocab = Append(@, l)])

load_vocab_keepblank(fs, path) ==
  IF ~fs[path].exists
    THEN [raised |-> "FileNotFoundError", vocab |-> <<>>, warnings |-> <<>>]
    ELSE LET r == load_loop_keepblank(fs[path].lines, path, 1, [vocab |-> <<>>, warnings |-> <<>>])
         IN [raised |-> None, vocab |-> r.vocab, warnings |-> r.warnings]

\* load_vocab with the failure of open() swallowed: no file, no tokens
load_vocab_swallow(fs, path) ==
  LET r == load_loop(fs[path].lines, path, 1, [vocab |-> <<>>, warnings |-> <<>>])
  IN [raised |-> None, vocab |-> r.vocab, warnings |-> r.warnings]

\* load_vocab(path) on the file system fs: the exception open() raised or None,
\* the list returned and the warnings logged
load_vocab(fs, path) ==
  IF ~fs[path].exists
    THEN [raised |-> "FileNotFoundError", vocab |-> <<>>, warnings |-> <<>>]
    ELSE LET r == load_loop(fs[path].lines, path, 1, [vocab |-> <<>>, warnings |-> <<>>])
         IN [raised |-> None, vocab |-> r.vocab, warnings |-> r.warnings]

\* the line load_vocab prints on stderr
ReadLine(path, r) == [k |-> "read", n |-> Len(r.vocab), path |-> path]

\* ---------------------------------------------------------------- basictoken_counts
IsPunct(c) == c \in {",", "."}

RECURSIVE rstrip_ws(_)
\* l.rstrip()
rstrip_ws(l) ==
  IF Len(l) > 0 /\ IsSpaceChar(l[Len(l)]) THEN rstrip_ws(SubSeq(l, 1, Len(l) - 1)) ELSE l

RECURSIVE tokenize_from(_, _, _, _)
\* the segmentation of l from character i on: cur is the token being read
tokenize_from(l, i, cur, acc) ==
  LET flush == IF Len(cur) > 0 THEN Append(acc, cur) ELSE acc IN
  IF i > Len(l) THEN flush
  ELSE IF IsSpaceChar(l[i]) THEN tokenize_from(l, i + 1, <<>>, flush)
  ELSE IF IsPunct(l[i]) THEN tokenize_from(l, i + 1, <<>>, Append(flush, <<l[i]>>))
  ELSE tokenize_from(l, i + 1, Append(cur, l[i]), acc)

\* berttokenizer.basic_tokenize: the basic tokens of a string, in order; split at
\* whitespace, each punctuation character a token of its own
basic_tokenize(l) == tokenize_from(l, 1, <<>>, <<>>)

\* the keys of a Counter, which is a list of <<key, count>> in insertion order
Keys(counts) == {counts[i][1] : i \in 1..Len(counts)}

KeyIndex(counts, t) == CHOOSE i \in 1..Len(counts) : counts[i][1] = t

\* counts[t] += 1: a new key is inserted last, an old one keeps its place
Increment(counts, t) ==
  IF t \in Keys(counts)
    THEN [counts EXCEPT ![KeyIndex(counts, t)] = <<t, @[2] + 1>>]
    ELSE Append(counts, <<t, 1>>)

RECURSIVE count_tokens(_, _, _)
\* lines 109-111 from token i on (the test on Len(counts) has the table
\* computed before the loop goes on)
count_tokens(toks, i, counts) ==
  IF i > Len(toks) \/ Len(counts) < 0 THEN counts
  ELSE IF Len(toks[i]) > 0 /\ ~isspace(toks[i])
    THEN count_tokens(toks, i + 1, Increment(counts, toks[i]))
  ELSE count_tokens(toks, i + 1, counts)

RECURSIVE count_lines(_, _, _)
\* lines 107-111 from line ln on
count_lines(lines, ln, counts) ==
  IF ln > Len(lines) \/ Len(counts) < 0 THEN counts
  ELSE count_lines(lines, ln + 1,
         count_tokens(basic_tokenize(rstrip_ws(lines[ln])), 1, counts))

\* basictoken_counts(fn) on the lines of the file
basictoken_counts(lines) == count_lines(lines, 1, <<>>)

\* ---------------------------------------------------------------- compare
max_examples == 10

\* e put into the list s, sorted by descending count, after every entry whose
\* count is not smaller: the place a stable sort by -count gives it
insert_sorted(s, e) ==
  LET smaller == {i \in 1..Len(s) : s[i][2] < e[2]}
      p == IF smaller = {} THEN Len(s) + 1
           ELSE CHOOSE i \in smaller : \A j \in smaller : i <= j
  IN SubSeq(s, 1, p - 1) \o <<e>> \o SubSeq(s, p, Len(s))

RECURSIVE sort_from(_, _, _)
sort_from(items, i, acc) ==
  IF i > Len(items) \/ Len(acc) < 0 THEN acc
  ELSE sort_from(items, i + 1, insert_sorted(acc, items[i]))

\* the place an unstable sort may give e: before the entries of equal count
insert_sorted_before(s, e) ==
  LET notlarger == {i \in 1..Len(s) : s[i][2] <= e[2]}
      p == IF notlarger = {} THEN Len(s) + 1
           ELSE CHOOSE i \in notlarger : \A j \in notlarger : i <= j
  IN SubSeq(s, 1, p - 1) \o <<e>> \o SubSeq(s, p, Len(s))

RECURSIVE sort_from_unstable(_, _, _)
sort_from_unstable(items, i, acc) ==
  IF i > Len(items) \/ Len(acc) < 0 THEN acc
  ELSE sort_from_unstable(items, i + 1, insert_sorted_before(acc, items[i]))

sorted_by_count_unstable(items) == sort_from_unstable(items, 1, <<>>)

\* sorted(token_counts.items(), key=lambda i:-i[1])
sorted_by_count(items) == sort_from(items, 1, <<>>)

\* '{:.1%}'.format(n/d), in tenths of a percent: n/d*100 to one decimal, a tie
\* going to the even digit
format_pct(n, d) ==
  LET q == (1000 * n) \div d
      r == (1000 * n) % d
  IN IF 2 * r < d THEN q
     ELSE IF 2 * r > d THEN q + 1
     ELSE IF q % 2 = 0 THEN q ELSE q + 1

\* the first print of compare; v1 and v2 are not empty
summary_wrong_denominator(f, v1, v2) ==
  [k |-> "summary", a |-> f.name1, lena |-> Cardinality(v1),
   b |-> f.name2, lenb |-> Cardinality(v2),
   overlap |-> Cardinality(v1 \cap v2),
   pcta |-> format_pct(Cardinality(v1 \cap v2), Cardinality(v2)),
   pctb |-> format_pct(Cardinality(v1 \cap v2), Cardinality(v1))]

summary_line(f, v1, v2) ==
  [k |-> "summary", a |-> f.name1, lena |-> Cardinality(v1),
   b |-> f.name2, lenb |-> Cardinality(v2),
   overlap |-> Cardinality(v1 \cap v2),
   pcta |-> format_pct(Cardinality(v1 \cap v2), Cardinality(v1)),
   pctb |-> format_pct(Cardinality(v1 \cap v2), Cardinality(v2))]

\* the frame of a call compare(vocab1, vocab2, name1, name2, token_counts) that
\* returns to back
NewFrame(vocab1, vocab2, name1, name2, token_counts, back) ==
  [vocab1 |-> vocab1, vocab2 |-> vocab2, name1 |-> name1, name2 |-> name2,
   token_counts |-> token_counts, back |-> back,
   v1 |-> {}, v2 |-> {}, ranked |-> <<>>, i |-> 0, v1count |-> 0, v2count |-> 0]

NoFrame == NewFrame(<<>>, <<>>, None, None, NoCounts, None)

\* an exception nothing catches: the traceback goes to stderr, the process ends
\* with status 1
Raise(exc) ==
  /\ pc' = "raised"
  /\ err' = Append(err, [k |-> "traceback", exc |-> exc])
  /\ exitcode' = <<1>>

\* lines 76-80: the two sets and the overlap line; the division raises when a
\* set is empty, before anything is printed
CompareSummary ==
  /\ pc = "compare"
  /\ LET v1 == Range(frame.vocab1)
         v2 == Range(frame.vocab2)
     IN /\ frame' = [frame EXCEPT !.v1 = v1, !.v2 = v2]
        /\ IF v1 = {} \/ v2 = {}
             THEN /\ Raise("ZeroDivisionError")
                  /\ out' = out
             ELSE /\ out' = Append(out, summary_line(frame, v1, v2))
                  /\ pc' = IF frame.token_counts.none THEN "sample1" ELSE "rank"
                  /\ UNCHANGED <<err, exitcode>>
  /\ UNCHANGED callerVars

\* the size max_sample(population, k) asks random.sample for
max_sample_size(population, k) == Min(Cardinality(population), k)

\* random.sample(population, n) of a set: up to Python 3.10 any n distinct
\* members (their order is left out: a bag); from 3.11 on a set is refused
SampleSet(population, n) ==
  {SetToBag(s) : s \in {t \in SUBSET population : Cardinality(t) = n}}

\* lines 84-85 (side 1) and 86-87 (side 2): a sample of one difference
CompareSample(side) ==
  /\ pc = IF side = 1 THEN "sample1" ELSE "sample2"
  /\ LET d == IF side = 1 THEN frame.v1 \ frame.v2 ELSE frame.v2 \ frame.v1
         n == max_sample_size(d, max_examples)
     IN IF interp = "py311"
          THEN /\ Raise("TypeError")
               /\ out' = out
        ELSE IF n > Cardinality(d)
          THEN /\ Raise("ValueError")
               /\ out' = out
        ELSE /\ \E s \in SampleSet(d, n) :
                  out' = Append(out, [k |-> "sample",
                                      a |-> IF side = 1 THEN frame.name1 ELSE frame.name2,
                                      b |-> IF side = 1 THEN frame.name2 ELSE frame.name1,
                                      toks |-> s])
             /\ pc' = IF side = 1 THEN "sample2" ELSE "compare_done"
             /\ UNCHANGED <<err, exitcode>>
  /\ UNCHANGED <<callerVars, frame>>

\* lines 90-93: the counters and the sorted list the loop walks
CompareRank ==
  /\ pc = "rank"
  /\ frame' = [frame EXCEPT !.ranked = sorted_by_count(frame.token_counts.items),
                            !.i = 0, !.v1count = 0, !.v2count = 0]
  /\ pc' = "scan"
  /\ UNCHANGED <<callerVars, out, err, exitcode>>

ranked_line(a, b, t, i) == [k |-> "ranked", a |-> a, b |-> b, t |-> t, rank |-> i]

\* the break test of line 100 with "or" for "and"
scan_break_or(c1, c2) == c1 >= max_examples \/ c2 >= max_examples

\* line 100
scan_break(c1, c2) == c1 >= max_examples /\ c2 >= max_examples

\* the test of line 94 (and of 97 with the sets swapped) without its limit
emits_unlimited(t, mine, other, count) == t \in mine /\ t \notin other

\* line 94 (and 97 with the sets swapped)
emits(t, mine, other, count) == t \in mine /\ t \notin other /\ count < max_examples

\* the rank printed by lines 95 and 98: enumerate(..., start=1)
rank_of(i) == i

\* lines 91-101, one iteration on entry i of the sorted list: the frame after
\* it, the lines printed and whether the loop ends
scan_iter(f, i) ==
  LET t  == f.ranked[i][1]
      e1 == emits(t, f.v1, f.v2, f.v1count)
      c1 == IF e1 THEN f.v1count + 1 ELSE f.v1count
      e2 == emits(t, f.v2, f.v1, f.v2count)
      c2 == IF e2 THEN f.v2count + 1 ELSE f.v2count
  IN [f |-> [f EXCEPT !.i = i, !.v1count = c1, !.v2count = c2],
      lines |-> (IF e1 THEN <<ranked_line(f.name1, f.name2, t, rank_of(i))>> ELSE <<>>)
                \o (IF e2 THEN <<ranked_line(f.name2, f.name1, t, rank_of(i))>> ELSE <<>>),
      brk |-> scan_break(c1, c2)]

\* the for loop of lines 91-101: the next entry, or the end of the list
ScanStep ==
  /\ pc = "scan"
  /\ IF frame.i >= Len(frame.ranked)
       THEN /\ pc' = "compare_done"
            /\ UNCHANGED <<frame, out>>
       ELSE LET r == scan_iter(frame, frame.i + 1)
            IN /\ frame' = r.f
               /\ out' = out \o r.lines
               /\ pc' = IF r.brk THEN "compare_done" ELSE "scan"
  /\ UNCHANGED <<callerVars, err, exitcode>>

\* compare returns to its caller
CompareReturn ==
  /\ pc = "compare_done"
  /\ pc' = frame.back
  /\ UNCHANGED <<callerVars, frame, out, err, exitcode>>

\* ---------------------------------------------------------------- check_vocab
\* line 34: v without a leading '##'
strip_marker(v) ==
  IF Len(v) >= 2 /\ v[1] = "#" /\ v[2] = "#" THEN SubSeq(v, 3, Len(v)) ELSE v

\* lines 32-36: the entries that hold more than one basic token
multipiece(vocab) ==
  SelectSeq(vocab, LAMBDA v : Len(basic_tokenize(strip_marker(v))) > 1)

\* lines 37-39: what check_vocab(vocab, name) logs
check_vocab(vocab, name) ==
  IF Len(multipiece(vocab)) > 0
    THEN <<[k |-> "multipiece", name |-> name, n |-> Len(multipiece(vocab)),
            items |-> multipiece(vocab)]>>
    ELSE <<>>

\* ---------------------------------------------------------------- main
\* the keys of an ordered dictionary, a list of <<key, value>>, in order
DictKeys(d) == [i \in 1..Len(d) |-> d[i][1]]

DictGet(d, key) == d[CHOOSE i \in 1..Len(d) : d[i][1] = key][2]

RECURSIVE dict_from(_, _, _)
\* OrderedDict(pairs): a key seen again keeps its place and takes the new value
dict_from(pairs, i, d) ==
  IF i > Len(pairs) THEN d
  ELSE LET key == pairs[i][1] IN
       IF \E j \in 1..Len(d) : d[j][1] = key
         THEN dict_from(pairs, i + 1,
                [d EXCEPT ![CHOOSE j \in 1..Len(d) : d[j][1] = key] = pairs[i]])
         ELSE dict_from(pairs, i + 1, Append(d, pairs[i]))

OrderedDict(pairs) == dict_from(pairs, 1, <<>>)

RECURSIVE combos_from(_, _, _)
\* the pairs <<keys[i], keys[j]>>, i < j, from <<i, j>> on, in the order of i then j
combos_from(keys, i, j) ==
  IF i >= Len(keys) THEN <<>>
  ELSE IF j > Len(keys) THEN combos_from(keys, i + 1, i + 2)
  ELSE <<<<keys[i], keys[j]>>>> \o combos_from(keys, i, j + 1)

\* itertools.combinations(keys, 2)
combinations2(keys) == combos_from(keys, 1, 2)

\* the process ends with a status
Exit(code) ==
  /\ pc' = "exit"
  /\ exitcode' = <<code>>

\* the test of line 117 against 1
too_few_below_one(vocab) == Len(vocab) < 1

\* line 117
too_few(vocab) == Len(vocab) < 2

\* line 116, parse_args: -h prints the help and ends with status 0; nargs='+'
\* with no vocab is an error, usage on stderr and status 2
MainParse ==
  /\ pc = "main"
  /\ IF args.help
       THEN /\ out' = Append(out, [k |-> "help"])
            /\ Exit(0)
            /\ err' = err
     ELSE IF Len(args.vocab) = 0
       THEN /\ err' = Append(err, [k |-> "usage_error"])
            /\ Exit(2)
            /\ out' = out
     ELSE /\ pc' = "check"
          /\ UNCHANGED <<out, err, exitcode>>
  /\ UNCHANGED <<callerVars, frame>>

\* lines 117-119
MainCheck ==
  /\ pc = "check"
  /\ IF too_few(args.vocab)
       THEN /\ err' = Append(err, [k |-> "require"])
            /\ Exit(1)
       ELSE /\ pc' = "load"
            /\ UNCHANGED <<err, exitcode>>
  /\ UNCHANGED <<callerVars, frame, out>>

\* line 120, one load_vocab of the list comprehension, and the OrderedDict
\* when the list is complete
MainLoad ==
  /\ pc = "load"
  /\ IF Len(loaded) < Len(args.vocab)
       THEN LET p == args.vocab[Len(loaded) + 1]
                r == load_vocab(files, p)
            IN /\ log' = Append(log, [op |-> "load", a |-> p, b |-> None])
               /\ IF r.raised # None
                    THEN /\ Raise(r.raised)
                         /\ UNCHANGED <<loaded, vocabs>>
                    ELSE /\ loaded' = Append(loaded, <<p, r.vocab>>)
                         /\ err' = err \o r.warnings \o <<ReadLine(p, r)>>
                         /\ UNCHANGED <<pc, exitcode, vocabs>>
       ELSE /\ vocabs' = OrderedDict(loaded)
            /\ pc' = "reference"
            /\ UNCHANGED <<loaded, err, exitcode, log>>
  /\ UNCHANGED <<args, files, interp, reference_counts, todo, frame, out, arg, ret>>

\* lines 121-124
MainReference ==
  /\ pc = "reference"
  /\ IF args.reference_text = None
       THEN /\ reference_counts' = NoCounts
            /\ pc' = "filter"
            /\ UNCHANGED <<err, exitcode, log>>
       ELSE /\ log' = Append(log, [op |-> "counts", a |-> args.reference_text, b |-> None])
            /\ IF ~files[args.reference_text].exists
                 THEN /\ Raise("FileNotFoundError")
                      /\ UNCHANGED reference_counts
                 ELSE /\ reference_counts' =
                           Counts(basictoken_counts(files[args.reference_text].lines))
                      /\ pc' = "filter"
                      /\ UNCHANGED <<err, exitcode>>
  /\ UNCHANGED <<args, files, interp, loaded, vocabs, todo, frame, out, arg, ret>>

\* lines 125-126
MainFilter ==
  /\ pc = "filter"
  /\ vocabs' = [i \in 1..Len(vocabs) |->
                  <<vocabs[i][1], filter_special(vocabs[i][2]).filtered>>]
  /\ err' = err \o [i \in 1..Len(vocabs) |->
                      FilterLine(vocabs[i][1], filter_special(vocabs[i][2]))]
  /\ log' = log \o [i \in 1..Len(vocabs) |-> [op |-> "filter", a |-> vocabs[i][1], b |-> None]]
  /\ pc' = "check_vocab"
  /\ UNCHANGED <<args, files, interp, loaded, reference_counts, todo, frame, out,
                 exitcode, arg, ret>>

RECURSIVE Flatten(_)
Flatten(ss) == IF Len(ss) = 0 THEN <<>> ELSE Head(ss) \o Flatten(Tail(ss))

\* lines 127-128
MainCheckVocab ==
  /\ pc = "check_vocab"
  /\ err' = err \o Flatten([i \in 1..Len(vocabs) |-> check_vocab(vocabs[i][2], vocabs[i][1])])
  /\ log' = log \o [i \in 1..Len(vocabs) |-> [op |-> "check", a |-> vocabs[i][1], b |-> None]]
  /\ todo' = combinations2(DictKeys(vocabs))
  /\ pc' = "pairs"
  /\ UNCHANGED <<args, files, interp, loaded, vocabs, reference_counts, frame, out,
                 exitcode, arg, ret>>

\* lines 129-131: the next pair is compared, or main returns 0
MainPairs ==
  /\ pc = "pairs"
  /\ IF Len(todo) = 0
       THEN /\ Exit(0)
            /\ UNCHANGED <<todo, frame, log>>
       ELSE LET k1 == Head(todo)[1]
                k2 == Head(todo)[2]
            IN /\ frame' = NewFrame(DictGet(vocabs, k1), DictGet(vocabs, k2), k1, k2,
                                    reference_counts, "pairs")
               /\ log' = Append(log, [op |-> "compare", a |-> k1, b |-> k2])
               /\ todo' = Tail(todo)
               /\ pc' = "compare"
               /\ UNCHANGED exitcode
  /\ UNCHANGED <<args, files, interp, loaded, vocabs, reference_counts, out, err, arg, ret>>

\* ---------------------------------------------------------------- inputs
Idle ==
  /\ args = [vocab |-> <<>>, reference_text |-> None, help |-> FALSE]
  /\ loaded = <<>>
  /\ vocabs = <<>>
  /\ reference_counts = NoCounts
  /\ todo = <<>>
  /\ out = <<>>
  /\ err = <<>>
  /\ exitcode = <<>>
  /\ log = <<>>

PAD == <<"[", "P", "A", "D", "]">>

\* the entries filter_special is tried on: reserved tokens, placeholders, near
\* misses of both, ordinary tokens
TokenPool ==
  { PAD, <<"[", "M", "A", "S", "K", "]">>, <<"[", "p", "a", "d", "]">>,
    <<"[", "P", "A", "D", "]", "x">>,
    U \o <<"0", "]">>, U \o <<"1", "2", "]">>, U \o <<"]">>, U \o <<"x", "]">>,
    U \o <<"1", "]", "x">>, <<"x">> \o U \o <<"1", "]">>, U \o <<"7", "]", "\n">>,
    U \o <<"7">>, <<"a">>, <<"#", "#", "a">> }

\* the contents of the lines load_vocab is tried on
LinePool ==
  { <<>>, <<" ">>, <<"\t", " ">>, <<"a">>, <<"a", " ", "b">>, <<" ", "a">>,
    <<"a", "\t">> }

\* a text file as the lines its iteration yields: each ends with a newline,
\* the last one only when nl
TextOf(contents, nl) ==
  [i \in 1..Len(contents) |->
     IF i = Len(contents) /\ ~nl /\ Len(contents[i]) > 0
       THEN contents[i] ELSE contents[i] \o <<"\n">>]

LineTexts == {TextOf(c, nl) : c \in SeqsUpTo(LinePool, MaxLines), nl \in BOOLEAN}

DigitChar(d) == <<"0", "1", "2", "3", "4", "5", "6", "7", "8", "9">>[d + 1]

\* the tokens compare is tried on: A(k) only in vocabulary 1, B(k) only in
\* vocabulary 2, C(k) in both
W(n) == <<"w", DigitChar(n \div 10), DigitChar(n % 10)>>

A(k) == W(3 * k)

B(k) == W(3 * k + 1)

C(k) == W(3 * k + 2)

Comma == <<",">>

Sizes == {0, 1, 2} \cup ((max_examples - 1)..MaxDiff)

Vocab1(x, c, dup) ==
  [i \in 1..x |-> A(i)] \o [i \in 1..c |-> C(i)]
    \o (IF dup /\ x > 0 THEN <<A(1)>> ELSE <<>>)

Vocab2(y, c) == [i \in 1..c |-> C(i)] \o [i \in 1..y |-> B(i)]

\* the order in which a reference text first names its tokens
TextOrder(o, n) ==
  IF o = 1 THEN Flatten([i \in 1..n |-> <<A(i), B(i)>>]) \o <<C(1), Comma>>
  ELSE IF o = 2 THEN [i \in 1..n |-> A(i)] \o <<Comma, C(1)>> \o [i \in 1..n |-> B(i)]
  ELSE [i \in 1..n |-> B(n + 1 - i)] \o <<C(1)>> \o [i \in 1..n |-> A(n + 1 - i)]

\* the tokens it names again, last ones first
TextRepeats(m, n) ==
  IF m = 0 THEN <<>>
  ELSE Flatten([i \in 1..n |->
         LET j == n + 1 - i IN
         IF j % m = 0 THEN <<B(j)>> ELSE IF j % m = 1 THEN <<A(j), Comma>> ELSE <<>>])

RECURSIVE JoinLine(_)
JoinLine(toks) ==
  IF Len(toks) = 0 THEN <<"\n">>
  ELSE IF Head(toks) = Comma THEN Comma \o JoinLine(Tail(toks))
  ELSE <<" ">> \o Head(toks) \o JoinLine(Tail(toks))

RECURSIVE Chunks(_)
Chunks(toks) ==
  IF Len(toks) = 0 THEN <<>>
  ELSE LET n == Min(Len(toks), 5)
       IN <<JoinLine(SubSeq(toks, 1, n))>> \o Chunks(SubSeq(toks, n + 1, Len(toks)))

RefTexts ==
  {Chunks(TextOrder(o, n) \o TextRepeats(m, n)) :
     o \in 1..3, m \in {0, 2, 3}, n \in {0, 3, max_examples + 1}}

RefCounters == {<<t, basictoken_counts(t)>> : t \in RefTexts}

VocabPairs ==
  {<<Vocab1(x, c, dup), Vocab2(y, c)>> :
     x \in Sizes, y \in Sizes, c \in 0..MaxCommon, dup \in BOOLEAN}

Interpreters == {"py310", "py311"}

Paths == {"p1", "p2", "p3"}

RefPath == "ref"

FA == TextOf(<<<<"a">>, <<"b">>, PAD, <<"a", " ", "b">>>>, TRUE)

FB == TextOf(<<<<"b">>, <<>>, <<"c">>, U \o <<"1", "]">>>>, FALSE)

FE == TextOf(<<PAD>>, TRUE)

VocabFiles == {Missing, File(FA), File(FB), File(FE)}

RefFile == File(<<<<"a", " ", "c", " ", "a", "\n">>, <<"b", ",", " ", "c", " ", "\n">>>>)

\* ---------------------------------------------------------------- specifications
\* filter_special applied to a vocabulary
InitFilter ==
  /\ Idle
  /\ pc = "filter_special"
  /\ arg \in SeqsUpTo(TokenPool, MaxLen)
  /\ ret = <<>>
  /\ files = [p \in {} |-> Missing]
  /\ interp \in {"py310"}
  /\ frame = NoFrame

CallFilterSpecial ==
  /\ pc = "filter_special"
  /\ ret' = filter_special(arg).filtered
  /\ err' = Append(err, FilterLine("v", filter_special(arg)))
  /\ pc' = "returned"
  /\ UNCHANGED <<args, files, interp, loaded, vocabs, reference_counts, todo, frame,
                 out, exitcode, arg, log>>

SpecFilter == InitFilter /\ [][CallFilterSpecial]_vars

\* load_vocab applied to a path
InitLoad ==
  /\ Idle
  /\ pc = "load_vocab"
  /\ arg = "p1"
  /\ ret = <<>>
  /\ files \in [{"p1"} -> {Missing} \cup {File(t) : t \in LineTexts}]
  /\ interp \in {"py310"}
  /\ frame = NoFrame

CallLoadVocab ==
  /\ pc = "load_vocab"
  /\ LET r == load_vocab(files, arg)
     IN IF r.raised # None
          THEN /\ Raise(r.raised)
               /\ ret' = ret
          ELSE /\ ret' = r.vocab
               /\ err' = err \o r.warnings \o <<ReadLine(arg, r)>>
               /\ pc' = "returned"
               /\ exitcode' = exitcode
  /\ UNCHANGED <<args, files, interp, loaded, vocabs, reference_counts, todo, frame,
                 out, arg, log>>

SpecLoad == InitLoad /\ [][CallLoadVocab]_vars

\* compare applied to two vocabularies and a frequency table; arg is the
\* reference text the table was counted from
InitCompare ==
  /\ Idle
  /\ pc = "compare"
  /\ ret = <<>>
  /\ files = [p \in {} |-> Missing]
  /\ interp \in Interpreters
  /\ \E vp \in VocabPairs, rc \in RefCounters :
        /\ arg = rc[1]
        /\ frame = NewFrame(vp[1], vp[2], "n1", "n2", Counts(rc[2]), "returned")

NextCompare == CompareSummary \/ CompareRank \/ ScanStep \/ CompareReturn

SpecCompare == InitCompare /\ [][NextCompare]_vars

\* compare applied to two vocabularies and no frequency table
InitSample ==
  /\ Idle
  /\ pc = "compare"
  /\ ret = <<>>
  /\ arg = <<>>
  /\ files = [p \in {} |-> Missing]
  /\ interp \in Interpreters
  /\ \E vp \in VocabPairs :
        frame = NewFrame(vp[1], vp[2], "n1", "n2", NoCounts, "returned")

NextSample == CompareSummary \/ CompareSample(1) \/ CompareSample(2) \/ CompareReturn

SpecSample == InitSample /\ [][NextSample]_vars

\* a run of the program
Init ==
  /\ pc = "main"
  /\ args \in [vocab : SeqsUpTo(Paths, MaxPaths), reference_text : {None, RefPath},
               help : BOOLEAN]
  /\ files \in {f \in [Paths \cup {RefPath} -> VocabFiles \cup {RefFile}] :
                  /\ \A p \in Paths : f[p] \in VocabFiles
                  /\ f[RefPath] \in {Missing, RefFile}}
  /\ interp \in Interpreters
  /\ loaded = <<>>
  /\ vocabs = <<>>
  /\ reference_counts = NoCounts
  /\ todo = <<>>
  /\ frame = NoFrame
  /\ out = <<>>
  /\ err = <<>>
  /\ exitcode = <<>>
  /\ arg = <<>>
  /\ ret = <<>>
  /\ log = <<>>

Next ==
  \/ MainParse \/ MainCheck \/ MainLoad \/ MainReference \/ MainFilter
  \/ MainCheckVocab \/ MainPairs
  \/ CompareSummary \/ CompareSample(1) \/ CompareSample(2) \/ CompareRank
  \/ ScanStep \/ CompareReturn

Spec == Init /\ [][Next]_vars

\* compare applied to two vocabularies and then to the same two the other way
\* round
SmallTokens == {<<"a">>, <<"b">>, <<"#", "#", "c">>}

SmallCounters ==
  {NoCounts, Counts(<<<<(<<"b">>), 1>>, <<(<<"a">>), 2>>, <<(<<"#", "#", "c">>), 2>>>>)}

InitOverlap ==
  /\ Idle
  /\ pc = "compare"
  /\ ret = <<>>
  /\ arg = <<>>
  /\ files = [p \in {} |-> Missing]
  /\ interp \in Interpreters
  /\ \E x \in SeqsUpTo(SmallTokens, MaxLen), y \in SeqsUpTo(SmallTokens, MaxLen),
        tc \in SmallCounters :
        frame = NewFrame(x, y, "n1", "n2", tc, "swap")

SwapCall ==
  /\ pc = "swap"
  /\ frame' = NewFrame(frame.vocab2, frame.vocab1, frame.name2, frame.name1,
                       frame.token_counts, "returned")
  /\ pc' = "compare"
  /\ UNCHANGED <<callerVars, out, err, exitcode>>

NextOverlap ==
  \/ CompareSummary \/ CompareSample(1) \/ CompareSample(2) \/ CompareRank
  \/ ScanStep \/ CompareReturn \/ SwapCall

SpecOverlap == InitOverlap /\ [][NextOverlap]_vars

\* ---------------------------------------------------------------- claims
IsSpecialToken(v) == v \in BERT_SPECIAL

IsPlaceholderToken(v) == ~IsSpecialToken(v) /\ UNUSED_RE_match(v)

IsOrdinaryToken(v) == ~IsSpecialToken(v) /\ ~UNUSED_RE_match(v)

NumSpecial(vocab) == Cardinality({i \in 1..Len(vocab) : IsSpecialToken(vocab[i])})

NumPlaceholder(vocab) ==
  Cardinality({i \in 1..Len(vocab) : IsPlaceholderToken(vocab[i])})

\* C1: filter_special returns exactly the ordinary entries of the vocabulary,
\* in their order, none of them a special or a placeholder token, and the three
\* counts it reports are those of the three classes and add up to the length
\* of the vocabulary.
C1_FilterPartition ==
  pc = "returned" =>
    LET line == err[Len(err)] IN
    /\ ret = SelectSeq(arg, IsOrdinaryToken)
    /\ \A i \in 1..Len(ret) : ~IsSpecialToken(ret[i]) /\ ~UNUSED_RE_match(ret[i])
    /\ line.special = NumSpecial(arg)
    /\ line.unused = NumPlaceholder(arg)
    /\ line.other = Len(ret)
    /\ line.special + line.unused + line.other = Len(arg)

C1_Witness ==
  /\ pc = "returned"
  /\ Len(arg) = 3
  /\ NumSpecial(arg) = 1
  /\ NumPlaceholder(arg) = 1
  /\ Len(ret) = 1

StripNewline(l) ==
  IF Len(l) > 0 /\ l[Len(l)] = "\n" THEN SubSeq(l, 1, Len(l) - 1) ELSE l

IsBlank(l) == \A j \in 1..Len(l) : l[j] \in {" ", "\t"}

HasSpace(l) == \E j \in 1..Len(l) : l[j] \in {" ", "\t"}

ExpectedWarnings(lines, path) ==
  Flatten([i \in 1..Len(lines) |->
    LET l == StripNewline(lines[i]) IN
    IF IsBlank(l) THEN <<[k |-> "skip", ln |-> i, path |-> path, l |-> l]>>
    ELSE IF HasSpace(l) THEN <<[k |-> "line", ln |-> i, path |-> path, l |-> l]>>
    ELSE <<>>])

\* C8: load_vocab returns, in line order, the lines without their newline that
\* are neither empty nor whitespace-only; a blank line is skipped with a warning
\* and not counted, a line with whitespace in it that is not blank is kept and
\* warned about, and no line makes loading fail.
C8_LoadVocab ==
  /\ files[arg].exists => pc # "raised"
  /\ pc = "returned" =>
       LET lines == files[arg].lines
           kept == SelectSeq([i \in 1..Len(lines) |-> StripNewline(lines[i])],
                             LAMBDA l : ~IsBlank(l))
       IN /\ ret = kept
          /\ err = ExpectedWarnings(lines, arg)
                     \o <<[k |-> "read", n |-> Len(kept), path |-> arg]>>

C8_Witness ==
  /\ pc = "returned"
  /\ Len(files[arg].lines) = 3
  /\ Len(ret) = 1
  /\ \E i \in 1..Len(err) : err[i].k = "skip" /\ Len(err[i].l) > 0
  /\ \E i \in 1..Len(err) : err[i].k = "skip" /\ Len(err[i].l) = 0
  /\ \E i \in 1..Len(err) : err[i].k = "line" /\ err[i].l = ret[1]

Summaries == SelectSeq(out, LAMBDA l : l.k = "summary")

Abs(n) == IF n < 0 THEN 0 - n ELSE n

\* p tenths of a percent is n/d to the nearest tenth of a percent
IsRatio(p, n, d) == 2 * Abs(p * d - 1000 * n) <= d /\ 0 <= p /\ p <= 1000

\* C6: compare reports the same overlap for (A, B) and for (B, A), namely
\* |A n B|, and the two coverages it prints are |A n B|/|A| and |A n B|/|B|,
\* each between 0% and 100%.
C6_OverlapSymmetric ==
  pc = "returned" /\ Len(Summaries) = 2 =>
    LET sAB == Summaries[1]
        sBA == Summaries[2]
        SA == Range(frame.vocab2)
        SB == Range(frame.vocab1)
        n == Cardinality(SA \cap SB)
    IN /\ sAB.overlap = n
       /\ sBA.overlap = sAB.overlap
       /\ IsRatio(sAB.pcta, n, Cardinality(SA))
       /\ IsRatio(sAB.pctb, n, Cardinality(SB))
       /\ IsRatio(sBA.pcta, n, Cardinality(SB))
       /\ IsRatio(sBA.pctb, n, Cardinality(SA))

C6_Witness ==
  /\ pc = "returned"
  /\ Len(Summaries) = 2
  /\ Summaries[1].overlap = 2
  /\ Summaries[1].lena = 3
  /\ Summaries[1].lenb = 2
  /\ Summaries[1].pcta = 667
  /\ Summaries[2].pcta = 1000
  /\ Len(frame.vocab1) > 2

\* the ranked lines compare printed for the side named a, in order
RankedLines(o, a) == SelectSeq(o, LAMBDA l : l.k = "ranked" /\ l.a = a)

Side1Lines == RankedLines(out, frame.name1)

Side2Lines == RankedLines(out, frame.name2)

Only1 == Range(frame.vocab1) \ Range(frame.vocab2)

Only2 == Range(frame.vocab2) \ Range(frame.vocab1)

SideOk(lines, only) ==
  /\ Len(lines) <= 10
  /\ \A i, j \in 1..Len(lines) : i # j => lines[i].t # lines[j].t
  /\ \A i \in 1..Len(lines) :
       /\ lines[i].t \in Keys(frame.token_counts.items)
       /\ lines[i].t \in only

\* C4: with a frequency table, the tokens compare prints for a side are
\* distinct, at most 10, keys of the table and exclusive to that side; a token
\* the table does not hold is never printed.
C4_RankedOutput ==
  /\ SideOk(Side1Lines, Only1)
  /\ SideOk(Side2Lines, Only2)
  /\ \A i \in 1..Len(out) :
       out[i].k = "ranked" => out[i].t \in Keys(frame.token_counts.items)

C4_Witness ==
  /\ pc = "compare_done"
  /\ Len(Side1Lines) = 10
  /\ Len(Side2Lines) = 2
  /\ Only1 \ Keys(frame.token_counts.items) # {}
  /\ Cardinality(Only1 \cap Keys(frame.token_counts.items)) > 10

BothFull(f) == f.v1count >= 10 /\ f.v2count >= 10

\* C5: once both sides have printed 10 examples nothing more is examined or
\* printed; the walk ends early only then; a side that has printed 10 prints no
\* more while the walk goes on to the next entry for the other side.
C5_EarlyStop ==
  [][ /\ BothFull(frame) => pc # "scan" /\ out' = out /\ frame'.i = frame.i
      /\ pc = "scan" /\ pc' # "scan" =>
           BothFull(frame') \/ (frame.i = Len(frame.ranked) /\ frame' = frame)
      /\ pc = "scan" /\ frame.i < Len(frame.ranked) => frame'.i = frame.i + 1
      /\ frame.v1count >= 10 => RankedLines(out', frame.name1) = Side1Lines
      /\ frame.v2count >= 10 => RankedLines(out', frame.name2) = Side2Lines
    ]_vars

\* both sides are full, side 1 was full while side 2 went on, and exclusive
\* tokens of lower rank were left unexamined
C5_Witness ==
  /\ pc = "compare_done"
  /\ BothFull(frame)
  /\ \E j \in (frame.i + 1)..Len(frame.ranked) : frame.ranked[j][1] \in Only2
  /\ \E j \in 1..frame.i :
       /\ frame.ranked[j][1] \in Only1
       /\ \A n \in 1..Len(Side1Lines) : Side1Lines[n].t # frame.ranked[j][1]

\* the basic tokens of the reference text, in the order of the text
TextTokens(lines) == Flatten([i \in 1..Len(lines) |-> basic_tokenize(lines[i])])

FirstOccurrence(toks, t) == CHOOSE i \in 1..Len(toks) :
  toks[i] = t /\ \A j \in 1..(i - 1) : toks[j] # t

Occurrences(toks, t) == Cardinality({i \in 1..Len(toks) : toks[i] = t})

\* the tokens of the sorted list that are in only, in the order of the list
ExclusiveRanked(only) ==
  SelectSeq([i \in 1..Len(frame.ranked) |-> frame.ranked[i][1]], LAMBDA t : t \in only)

SideRanked(lines, only) ==
  /\ \A n \in 1..Len(lines) :
       /\ lines[n].rank \in 1..Len(frame.ranked)
       /\ frame.ranked[lines[n].rank][1] = lines[n].t
       /\ lines[n].t = ExclusiveRanked(only)[n]
  /\ \A n \in 1..(Len(lines) - 1) : lines[n].rank < lines[n + 1].rank
  /\ pc = "compare_done" => Len(lines) = Min(10, Len(ExclusiveRanked(only)))

\* C10: the entries of the frequency table are walked by descending count,
\* equal counts in the order of first occurrence in the text; the rank printed
\* is the 1-based position in that order; each side prints, with increasing
\* ranks, exactly the first min(10, k) of its k exclusive tokens in that order.
C10_RankOrder ==
  /\ pc = "scan" /\ frame.i = 0 =>
       LET toks == TextTokens(arg)
           r == frame.ranked
       IN /\ {r[i][1] : i \in 1..Len(r)} = Range(toks)
          /\ \A i \in 1..Len(r) : r[i][2] = Occurrences(toks, r[i][1])
          /\ \A i, j \in 1..Len(r) : i < j =>
               \/ r[i][2] > r[j][2]
               \/ /\ r[i][2] = r[j][2]
                  /\ FirstOccurrence(toks, r[i][1]) < FirstOccurrence(toks, r[j][1])
  /\ pc \in {"scan", "compare_done", "returned"} =>
       SideRanked(Side1Lines, Only1) /\ SideRanked(Side2Lines, Only2)

\* side 1 printed 10 of more than 10, entries of equal count were walked, and
\* a rank printed is not the token's place among the exclusive tokens
C10_Witness ==
  /\ pc = "compare_done"
  /\ Len(Side1Lines) = 10
  /\ Len(ExclusiveRanked(Only1)) > 10
  /\ \E n \in 1..Len(Side1Lines) : Side1Lines[n].rank > 2 * n
  /\ \E i \in 1..(Len(frame.ranked) - 1) :
       /\ frame.ranked[i][2] = frame.ranked[i + 1][2]
       /\ frame.ranked[i][2] > 1
       /\ frame.ranked[i][1] \in Only1
  /\ Len(Side2Lines) \in 1..9

SampleLines(a) == SelectSeq(out, LAMBDA l : l.k = "sample" /\ l.a = a)

SampleOk(lines, d) ==
  \A i \in 1..Len(lines) :
    /\ BagCardinality(lines[i].toks) = Min(Cardinality(d), 10)
    /\ \A t \in BagToSet(lines[i].toks) : CopiesIn(t, lines[i].toks) = 1
    /\ BagToSet(lines[i].toks) \subseteq d
    /\ Cardinality(d) <= 10 => BagToSet(lines[i].toks) = d

\* the call has got past the overlap line and ended in an exception: the
\* sampling raised
SampleRaised == pc = "raised" /\ Len(Summaries) = 1

\* C7: without a frequency table, sampling a difference D never fails and
\* gives min(|D|, 10) distinct members of D, all of D when |D| <= 10.
C7_SamplingNeverFails ==
  /\ ~SampleRaised
  /\ SampleOk(SampleLines(frame.name1), Only1)
  /\ SampleOk(SampleLines(frame.name2), Only2)

\* what holds whatever the interpreter: a sample that is printed is right
C7_SampleWhenPrinted ==
  /\ SampleOk(SampleLines(frame.name1), Only1)
  /\ SampleOk(SampleLines(frame.name2), Only2)

\* the pairs <<args.vocab[i], args.vocab[j]>>, i < j, in the order of i then j
ArgPairs == combinations2(args.vocab)

Compared == SelectSeq(log, LAMBDA e : e.op = "compare")

ComparisonOutput == SelectSeq(out, LAMBDA l : l.k \in {"summary", "sample", "ranked"})

\* C2: a run over N >= 2 vocabulary paths that ends normally has compared
\* every pair of the N inputs once, N(N-1)/2 comparisons, in the order the pairs
\* come from the list of inputs.
C2_AllPairsCompared ==
  pc = "exit" /\ exitcode = <<0>> /\ ~args.help /\ Len(args.vocab) >= 2 =>
    /\ Len(Compared) = (Len(args.vocab) * (Len(args.vocab) - 1)) \div 2
    /\ \A n \in 1..Len(Compared) :
         <<Compared[n].a, Compared[n].b>> = ArgPairs[n]

Exited == exitcode # <<>>

HasErr(kind) == \E i \in 1..Len(err) : err[i].k = kind

Phase(e) ==
  CASE e.op = "load" -> 1
    [] e.op = "counts" -> 2
    [] e.op = "filter" -> 3
    [] e.op = "check" -> 4
    [] e.op = "compare" -> 5

OpsOf(op) == SelectSeq(log, LAMBDA e : e.op = op)

KeysOf(op) == [i \in 1..Len(OpsOf(op)) |-> OpsOf(op)[i].a]

SomeInputMissing ==
  \/ \E i \in 1..Len(args.vocab) : ~files[args.vocab[i]].exists
  \/ args.reference_text # None /\ ~files[args.reference_text].exists

\* C9: the calls of a run come in the order load, count, filter, check, compare;
\* when the first comparison starts every vocabulary has been loaded, the
\* table counted if a reference text was given, every vocabulary filtered and
\* checked; a run with a missing vocabulary or reference file prints no
\* comparison output.
C9_StepOrder ==
  /\ \A i, j \in 1..Len(log) : i < j => Phase(log[i]) <= Phase(log[j])
  /\ KeysOf("load") = SubSeq(args.vocab, 1, Len(KeysOf("load")))
  /\ Len(Compared) > 0 =>
       /\ KeysOf("load") = args.vocab
       /\ Len(OpsOf("counts")) = (IF args.reference_text = None THEN 0 ELSE 1)
       /\ KeysOf("filter") = DictKeys(vocabs)
       /\ KeysOf("check") = DictKeys(vocabs)
       /\ Range(DictKeys(vocabs)) = Range(args.vocab)
       /\ \A i \in 1..Len(vocabs) :
            \A j \in 1..Len(vocabs[i][2]) : IsOrdinaryToken(vocabs[i][2][j])
  /\ SomeInputMissing => ComparisonOutput = <<>> /\ Len(Compared) = 0

\* a run whose last vocabulary is missing, and one whose reference text is
\* missing after three vocabularies were loaded, have ended with nothing compared
C9_Witness ==
  /\ pc = "raised"
  /\ Len(args.vocab) = 3
  /\ Len(loaded) = 3
  /\ args.reference_text # None
  /\ ~files[args.reference_text].exists
  /\ Len(OpsOf("counts")) = 1

====
